---- MODULE Spec2Model ----
(***************************************************************************)
(* Model of main.py of aws-lambda-proxy: the ProxyHandler built by         *)
(* build_handler (one request on one connection, step by step) and the     *)
(* start-up path get_args -> main -> build_*_proxy -> serve_forever with   *)
(* the request threads of ThreadedHTTPServer contending for the backend.   *)
(***************************************************************************)
EXTENDS Integers, Sequences, FiniteSets, TLC

(* ---------------------------------------------------------------------- *)
(* Bounds of the model                                                    *)
(* ---------------------------------------------------------------------- *)
MaxReqHeaders == 2     \* headers a client sends in one request
MaxRespHeaders == 2    \* headers a backend response carries
MaxBodyLen == 1        \* length of a request / response body
MaxGivenFunctions == 1 \* occurrences of --function on the command line
MaxLambdasBound == 2   \* largest --max-lambdas value tried
NumThreads == 3        \* simultaneous request threads of the burst

(* ---------------------------------------------------------------------- *)
(* Program constants                                                      *)
(* ---------------------------------------------------------------------- *)
DEFAULT_MAX_LAMBDAS == 10
OVERRIDE_USER_AGENT == FALSE
DEFAULT_FUNCTIONS == <<"simple-http-proxy">>

\* lib.headers is not part of the sources at hand: hop-by-hop and
\* proxy-specific header names, in the lower case the request parser yields.
FILTERED_REQUEST_HEADERS ==
    {"connection", "keep-alive", "proxy-connection", "proxy-authorization",
     "te", "trailers", "transfer-encoding", "upgrade"}

FILTERED_RESPONSE_HEADERS ==
    {"connection", "keep-alive", "proxy-authenticate", "trailers",
     "transfer-encoding", "upgrade"}

DEFAULT_USER_AGENT == "Mozilla/5.0"

(* ---------------------------------------------------------------------- *)
(* Input universes                                                        *)
(* ---------------------------------------------------------------------- *)
ProxiedMethods == {"GET", "POST", "HEAD", "PUT", "DELETE", "PATCH", "OPTIONS"}
Methods == ProxiedMethods \cup {"CONNECT"}

ClientHeaderNames == {"Connection", "Proxy-Connection", "X-Token"}
HeaderValues == {"keep-alive", "v"}
RespHeaderNames == {"content-type", "transfer-encoding", "etag"}
RespHeaderValues == {"text"}
StatusCodes == {200, 404}
ProxiedPaths == {"http://a/"}
ConnectPaths == {"a:443", "a"}

SubsetsUpTo(S, k) == {T \in SUBSET S : Cardinality(T) <= k}

Perms(S) ==
    {s \in [1..Cardinality(S) -> S] :
        \A i, j \in 1..Cardinality(S) : s[i] = s[j] => i = j}

BodyOfLen(n) ==
    CASE n = 0 -> ""
      [] n = 1 -> "x"
      [] n = 2 -> "xx"
      [] n = 3 -> "xxx"
      [] OTHER -> "xxxx"

\* rfc822.Message keys its dict by the lower-cased header name
Lower(n) ==
    CASE n = "Host" -> "host"
      [] n = "Connection" -> "connection"
      [] n = "Proxy-Connection" -> "proxy-connection"
      [] n = "X-Token" -> "x-token"
      [] n = "User-Agent" -> "user-agent"
      [] OTHER -> n

\* self.headers as the handler sees it: lower-cased names -> values
ParseHeaders(wire) ==
    [k \in {Lower(n) : n \in DOMAIN wire} |->
        wire[CHOOSE n \in DOMAIN wire : Lower(n) = k]]

\* 'a:443'.split(':')
SplitColon(p) ==
    CASE p = "a:443" -> <<"a", "443">>
      [] p = "a" -> <<"a">>
      [] OTHER -> <<p>>

version_string == "BaseHTTP/0.3 Python/2.7"
date_time_string == "date"

(* ---------------------------------------------------------------------- *)
(* What is written to the client, item by item                            *)
(* ---------------------------------------------------------------------- *)
StatusLine(code) == [kind |-> "status", code |-> code, name |-> "", value |-> ""]
Header(n, v) == [kind |-> "header", code |-> 0, name |-> n, value |-> v]
EndHeaders == [kind |-> "end", code |-> 0, name |-> "", value |-> ""]
BodyItem(b) == [kind |-> "body", code |-> 0, name |-> "", value |-> b]

EventOf(item) ==
    CASE item.kind = "status" -> "send_response"
      [] item.kind = "header" -> "send_header"
      [] item.kind = "end" -> "end_headers"
      [] OTHER -> "wfile.write"

EventsOf(items) == [i \in 1..Len(items) |-> EventOf(items[i])]

\* BaseHTTPRequestHandler.send_response: status line, Server and Date
send_response(code) ==
    <<StatusLine(code), Header("Server", version_string),
      Header("Date", date_time_string)>>

\* BaseHTTPRequestHandler.send_error: a complete error page of its own
send_error(code, cmd) ==
    send_response(code)
    \o <<Header("Content-Type", "text/html"), Header("Connection", "close"),
         EndHeaders>>
    \o (IF cmd # "HEAD" /\ code >= 200 /\ code \notin {204, 304}
        THEN <<BodyItem("error")>> ELSE <<>>)

(* ---------------------------------------------------------------------- *)
(* State                                                                  *)
(* ---------------------------------------------------------------------- *)
VARIABLES
    \* one request on one connection
    command, path, wireHeaders, pc, exc,
    headers, requestBody, approxRequestLen, requestArgs,
    response, respOrder, approxResponseLen,
    wire, trace, bytesUp, bytesDown,
    sock, clientSock, sockCloseCalls,
    \* start-up and the backend
    argv, args, mainPc, exitCode, proxy, listener,
    semaphore, workers, tpc

hvars == <<command, path, wireHeaders, pc, exc, headers, requestBody,
           approxRequestLen, requestArgs, response, respOrder,
           approxResponseLen, wire, trace, bytesUp, bytesDown,
           sock, clientSock, sockCloseCalls>>
mvars == <<argv, args, mainPc, exitCode, proxy, listener, semaphore, workers, tpc>>
vars == <<hvars, mvars>>

NoBody == [present |-> FALSE, data |-> ""]
NoResponse == [statusCode |-> 0, headers |-> <<>>, content |-> ""]
NoCall == [called |-> FALSE, method |-> "", url |-> "", headers |-> <<>>,
           body |-> NoBody]

(* ---------------------------------------------------------------------- *)
(* build_handler: one request handled by ProxyHandler                     *)
(* ---------------------------------------------------------------------- *)
ClientHeaderSets ==
    UNION {[S -> HeaderValues] : S \in SubsetsUpTo(ClientHeaderNames, MaxReqHeaders)}

Responses ==
    UNION {{[statusCode |-> c, headers |-> h, content |-> BodyOfLen(n)] :
              c \in StatusCodes, n \in 0..MaxBodyLen,
              h \in [S -> RespHeaderValues]} :
           S \in SubsetsUpTo(RespHeaderNames, MaxRespHeaders)}

HandlerInit ==
    /\ command \in Methods
    /\ path \in (IF command = "CONNECT" THEN ConnectPaths ELSE ProxiedPaths)
    /\ wireHeaders \in ClientHeaderSets
    /\ pc = "dispatch"
    /\ exc = "none"
    /\ headers = <<>>
    /\ requestBody = NoBody
    /\ approxRequestLen = 0
    /\ requestArgs = NoCall
    /\ response = NoResponse
    /\ respOrder = <<>>
    /\ approxResponseLen = 0
    /\ wire = <<>>
    /\ trace = <<>>
    /\ bytesUp = <<>>
    /\ bytesDown = <<>>
    /\ sock = "none"
    /\ clientSock = "open"
    /\ sockCloseCalls = 0

\* The order in which "for header in self.headers" visits the keys
RECURSIVE KeyOrder(_)
KeyOrder(S) ==
    IF S = {} THEN <<>>
    ELSE LET k == CHOOSE x \in S : TRUE IN <<k>> \o KeyOrder(S \ {k})

\* lines 193-198 with the "continue" left out
RECURSIVE FilterLoopNoContinue(_, _, _)
FilterLoopNoContinue(keys, msg, acc) ==
    IF keys = <<>> THEN acc
    ELSE LET header == Head(keys)
             value == msg[header]
         IN FilterLoopNoContinue(Tail(keys), msg,
                [headers |-> (header :> value) @@ acc.headers,
                 len |-> acc.len + Len(header) + Len(value) + 4])

\* lines 193-198: the loop over self.headers
RECURSIVE FilterLoop(_, _, _)
FilterLoop(keys, msg, acc) ==
    IF keys = <<>> THEN acc
    ELSE LET header == Head(keys)
             value == msg[header]
             len == acc.len + Len(header) + Len(value) + 4
         IN IF header \in FILTERED_REQUEST_HEADERS
            THEN FilterLoop(Tail(keys), msg, [acc EXCEPT !.len = len])
            ELSE FilterLoop(Tail(keys), msg,
                    [headers |-> (header :> value) @@ acc.headers,
                     len |-> len])

\* lines 187-201: headers and the running length before the body is read
RequestHeaders(method, url, msg) ==
    LET start == [headers |-> <<>>,
                  len |-> 2 + Len(url) + Len(method) + Len(version_string)]
        looped == FilterLoop(KeyOrder(DOMAIN msg), msg, start)
        closed == ("Connection" :> "close") @@ looped.headers
    IN [headers |-> IF OVERRIDE_USER_AGENT
                    THEN ("User-Agent" :> DEFAULT_USER_AGENT) @@ closed
                    ELSE closed,
        len |-> looped.len]

\* lines 216-222: the running response length over the iteration order
RECURSIVE ResponseLenLoop(_, _, _)
ResponseLenLoop(order, hdrs, acc) ==
    IF order = <<>> THEN acc
    ELSE LET header == Head(order) IN
         IF header \in FILTERED_RESPONSE_HEADERS
         THEN ResponseLenLoop(Tail(order), hdrs, acc)
         ELSE ResponseLenLoop(Tail(order), hdrs,
                              Len(header) + Len(hdrs[header]) + 4)

\* lines 219-223: the headers sent to the client, in iteration order
RECURSIVE ForwardedHeaders(_, _)
ForwardedHeaders(order, hdrs) ==
    IF order = <<>> THEN <<>>
    ELSE LET header == Head(order) IN
         IF header \in FILTERED_RESPONSE_HEADERS
         THEN ForwardedHeaders(Tail(order), hdrs)
         ELSE <<Header(header, hdrs[header])>>
              \o ForwardedHeaders(Tail(order), hdrs)

\* lines 218-226: everything _proxy_request writes for a response
ResponseItems(resp, order) ==
    send_response(resp.statusCode)
    \o ForwardedHeaders(order, resp.headers)
    \o <<Header("Proxy-Connection", "close"), EndHeaders,
         BodyItem(resp.content)>>

\* lines 244-247: the reply to a CONNECT whose connect step succeeded
ConnectReplyItems ==
    send_response(200)
    \o <<Header("Proxy-Agent", version_string),
         Header("Proxy-Connection", "close"), EndHeaders>>

\* lines 239-240: send_error(520) followed by end_headers()
ConnectErrorItems(cmd) == send_error(520, cmd) \o <<EndHeaders>>

\* the first k items reach the client; the write of item k+1 raises
WriteItems(items, k) ==
    /\ wire' = wire \o SubSeq(items, 1, k)
    /\ exc' = IF k < Len(items) THEN "socket.error" ELSE exc

(* ---------------------------------------------------------------------- *)
(* _proxy_request, wrapped by log_request_delay                           *)
(* ---------------------------------------------------------------------- *)
HandlerMainUnchanged == UNCHANGED mvars

\* lines 152-155: the wrapper enters the record_delay() scope
log_request_delay_enter ==
    /\ pc = "dispatch"
    /\ command \in ProxiedMethods
    /\ trace' = Append(trace, "record_delay.enter")
    /\ pc' = "filter"
    /\ UNCHANGED <<command, path, wireHeaders, exc, headers, requestBody,
                   approxRequestLen, requestArgs, response, respOrder,
                   approxResponseLen, wire, bytesUp, bytesDown, sock,
                   clientSock, sockCloseCalls>>
    /\ HandlerMainUnchanged

\* lines 185-201
proxy_request_headers ==
    /\ pc = "filter"
    /\ LET r == RequestHeaders(command, path, ParseHeaders(wireHeaders)) IN
        /\ headers' = r.headers
        /\ approxRequestLen' = r.len
    /\ pc' = "body"
    /\ UNCHANGED <<command, path, wireHeaders, exc, requestBody, requestArgs,
                   response, respOrder, approxResponseLen, wire, trace,
                   bytesUp, bytesDown, sock, clientSock, sockCloseCalls>>
    /\ HandlerMainUnchanged

\* lines 204-208: rfile.read() for every method but GET; the read may raise
proxy_request_body ==
    /\ pc = "body"
    /\ \/ /\ command = "GET"
          /\ requestBody' = NoBody
          /\ UNCHANGED <<approxRequestLen, exc>>
          /\ pc' = "record_up"
       \/ /\ command # "GET"
          /\ \E n \in 0..MaxBodyLen :
                /\ requestBody' = [present |-> TRUE, data |-> BodyOfLen(n)]
                /\ approxRequestLen' = approxRequestLen + Len(BodyOfLen(n))
          /\ UNCHANGED exc
          /\ pc' = "record_up"
       \/ /\ command # "GET"
          /\ exc' = "socket.error"
          /\ UNCHANGED <<requestBody, approxRequestLen>>
          /\ pc' = "wrapper_exit"
    /\ UNCHANGED <<command, path, wireHeaders, headers, requestArgs,
                   response, respOrder, approxResponseLen, wire, trace,
                   bytesUp, bytesDown, sock, clientSock, sockCloseCalls>>
    /\ HandlerMainUnchanged

\* line 210 left out: the request is dispatched without reporting bytes-up
proxy_request_record_up_skipped ==
    /\ pc = "record_up"
    /\ pc' = "request"
    /\ UNCHANGED <<command, path, wireHeaders, exc, headers, requestBody,
                   approxRequestLen, requestArgs, response, respOrder,
                   approxResponseLen, wire, trace, bytesUp, bytesDown, sock,
                   clientSock, sockCloseCalls>>
    /\ HandlerMainUnchanged

\* line 210
proxy_request_record_up ==
    /\ pc = "record_up"
    /\ bytesUp' = Append(bytesUp, approxRequestLen)
    /\ trace' = Append(trace, "record_bytes_up")
    /\ pc' = "request"
    /\ UNCHANGED <<command, path, wireHeaders, exc, headers, requestBody,
                   approxRequestLen, requestArgs, response, respOrder,
                   approxResponseLen, wire, bytesDown, sock, clientSock,
                   sockCloseCalls>>
    /\ HandlerMainUnchanged

\* line 212: proxy.request returns a response or raises
proxy_request_call ==
    /\ pc = "request"
    /\ requestArgs' = [called |-> TRUE, method |-> command, url |-> path,
                       headers |-> headers, body |-> requestBody]
    /\ \/ /\ \E r \in Responses :
                /\ response' = r
                /\ respOrder' \in Perms(DOMAIN r.headers)
          /\ trace' = trace \o <<"proxy.request", "proxy.request.returned">>
          /\ UNCHANGED exc
          /\ pc' = "respond"
       \/ /\ trace' = trace \o <<"proxy.request", "proxy.request.raised">>
          /\ exc' = "UpstreamError"
          /\ UNCHANGED <<response, respOrder>>
          /\ pc' = "wrapper_exit"
    /\ UNCHANGED <<command, path, wireHeaders, headers, requestBody,
                   approxRequestLen, approxResponseLen, wire, bytesUp,
                   bytesDown, sock, clientSock, sockCloseCalls>>
    /\ HandlerMainUnchanged

\* lines 216-227: status line, forwarded headers, Proxy-Connection, body
proxy_request_respond ==
    /\ pc = "respond"
    /\ LET items == ResponseItems(response, respOrder) IN
       \E k \in 0..Len(items) :
          /\ WriteItems(items, k)
          /\ trace' = trace \o EventsOf(SubSeq(items, 1, k))
          /\ IF k = Len(items)
             THEN /\ approxResponseLen' =
                        ResponseLenLoop(respOrder, response.headers, 20)
                        + Len(response.content)
                  /\ pc' = "record_down"
             ELSE /\ UNCHANGED approxResponseLen
                  /\ pc' = "wrapper_exit"
    /\ UNCHANGED <<command, path, wireHeaders, headers, requestBody,
                   approxRequestLen, requestArgs, response, respOrder,
                   bytesUp, bytesDown, sock, clientSock, sockCloseCalls>>
    /\ HandlerMainUnchanged

\* line 228
proxy_request_record_down ==
    /\ pc = "record_down"
    /\ bytesDown' = Append(bytesDown, approxResponseLen)
    /\ trace' = Append(trace, "record_bytes_down")
    /\ pc' = "wrapper_exit"
    /\ UNCHANGED <<command, path, wireHeaders, exc, headers, requestBody,
                   approxRequestLen, requestArgs, response, respOrder,
                   approxResponseLen, wire, bytesUp, sock, clientSock,
                   sockCloseCalls>>
    /\ HandlerMainUnchanged

\* lines 153-156: the record_delay() scope ends, on return or on exception;
\* the wrapper handles nothing, an exception goes on to the server
log_request_delay_exit ==
    /\ pc = "wrapper_exit"
    /\ trace' = Append(trace, "record_delay.exit")
    /\ pc' = "handler_done"
    /\ UNCHANGED <<command, path, wireHeaders, exc, headers, requestBody,
                   approxRequestLen, requestArgs, response, respOrder,
                   approxResponseLen, wire, bytesUp, bytesDown, sock,
                   clientSock, sockCloseCalls>>
    /\ HandlerMainUnchanged

(* ---------------------------------------------------------------------- *)
(* _connect_request                                                       *)
(* ---------------------------------------------------------------------- *)
\* proxy.stream relays until either side closes; lib.proxy is not part of
\* the sources at hand: it leaves both sockets closed, however it ends
stream(cli, tgt) == [client |-> "closed", target |-> "closed"]

\* line 234: host, port = self.path.split(':')
connect_request_split ==
    /\ pc = "dispatch"
    /\ command = "CONNECT"
    /\ IF Len(SplitColon(path)) = 2
       THEN pc' = "connect" /\ UNCHANGED exc
       ELSE pc' = "handler_done" /\ exc' = "ValueError"
    /\ UNCHANGED <<command, path, wireHeaders, headers, requestBody,
                   approxRequestLen, requestArgs, response, respOrder,
                   approxResponseLen, wire, trace, bytesUp, bytesDown, sock,
                   clientSock, sockCloseCalls>>
    /\ HandlerMainUnchanged

\* lines 235-248 with the stream started before the 200 reply is written
connect_request_connect_then_stream ==
    /\ pc = "connect"
    /\ sock' = "open"
    /\ trace' = trace \o <<"proxy.connect", "proxy.connect.returned">>
    /\ pc' = "stream"
    /\ UNCHANGED <<command, path, wireHeaders, exc, headers, requestBody,
                   approxRequestLen, requestArgs, response, respOrder,
                   approxResponseLen, wire, bytesUp, bytesDown, clientSock,
                   sockCloseCalls>>
    /\ HandlerMainUnchanged

\* lines 235-236: proxy.connect returns the target socket
connect_request_connect ==
    /\ pc = "connect"
    /\ sock' = "open"
    /\ trace' = trace \o <<"proxy.connect", "proxy.connect.returned">>
    /\ pc' = "reply"
    /\ UNCHANGED <<command, path, wireHeaders, exc, headers, requestBody,
                   approxRequestLen, requestArgs, response, respOrder,
                   approxResponseLen, wire, bytesUp, bytesDown, clientSock,
                   sockCloseCalls>>
    /\ HandlerMainUnchanged

\* lines 237-241 with the "return" left out: the handler goes on to the reply
connect_request_failed_no_return ==
    /\ pc = "connect"
    /\ LET items == ConnectErrorItems(command) IN
       \E k \in 0..Len(items) :
          /\ WriteItems(items, k)
          /\ trace' = trace \o <<"proxy.connect", "proxy.connect.raised">>
                      \o (IF k >= 1 THEN <<"send_error">> ELSE <<>>)
          /\ pc' = IF k = Len(items) THEN "reply" ELSE "handler_done"
    /\ UNCHANGED <<command, path, wireHeaders, headers, requestBody,
                   approxRequestLen, requestArgs, response, respOrder,
                   approxResponseLen, bytesUp, bytesDown, sock, clientSock,
                   sockCloseCalls>>
    /\ HandlerMainUnchanged

\* lines 237-241: proxy.connect raises; send_error(520), end_headers, return
connect_request_failed ==
    /\ pc = "connect"
    /\ LET items == ConnectErrorItems(command) IN
       \E k \in 0..Len(items) :
          /\ WriteItems(items, k)
          /\ trace' = trace \o <<"proxy.connect", "proxy.connect.raised">>
                      \o (IF k >= 1 THEN <<"send_error">> ELSE <<>>)
    /\ pc' = "handler_done"
    /\ UNCHANGED <<command, path, wireHeaders, headers, requestBody,
                   approxRequestLen, requestArgs, response, respOrder,
                   approxResponseLen, bytesUp, bytesDown, sock, clientSock,
                   sockCloseCalls>>
    /\ HandlerMainUnchanged

\* lines 244-247: the 200 reply; a write that raises goes to the finally
connect_request_reply ==
    /\ pc = "reply"
    /\ LET items == ConnectReplyItems IN
       \E k \in 0..Len(items) :
          /\ WriteItems(items, k)
          /\ trace' = trace \o EventsOf(SubSeq(items, 1, k))
          /\ pc' = IF k = Len(items) THEN "stream" ELSE "finally"
    /\ UNCHANGED <<command, path, wireHeaders, headers, requestBody,
                   approxRequestLen, requestArgs, response, respOrder,
                   approxResponseLen, bytesUp, bytesDown, sock, clientSock,
                   sockCloseCalls>>
    /\ HandlerMainUnchanged

\* line 248: proxy.stream(self.connection, sock) returns or raises
connect_request_stream ==
    /\ pc = "stream"
    /\ LET after == stream(clientSock, sock) IN
        /\ clientSock' = after.client
        /\ sock' = after.target
    /\ \/ /\ trace' = trace \o <<"proxy.stream", "proxy.stream.returned">>
          /\ UNCHANGED exc
       \/ /\ trace' = trace \o <<"proxy.stream", "proxy.stream.raised">>
          /\ exc' = "StreamError"
    /\ pc' = "finally"
    /\ UNCHANGED <<command, path, wireHeaders, headers, requestBody,
                   approxRequestLen, requestArgs, response, respOrder,
                   approxResponseLen, wire, bytesUp, bytesDown,
                   sockCloseCalls>>
    /\ HandlerMainUnchanged

\* lines 249-253 without the finally clause: the target socket is left alone
connect_request_finally_no_close ==
    /\ pc = "finally"
    /\ pc' = "handler_done"
    /\ UNCHANGED <<command, path, wireHeaders, exc, headers, requestBody,
                   approxRequestLen, requestArgs, response, respOrder,
                   approxResponseLen, wire, trace, bytesUp, bytesDown, sock,
                   clientSock, sockCloseCalls>>
    /\ HandlerMainUnchanged

\* lines 249-254: except logs and re-raises; finally closes the target socket
connect_request_finally ==
    /\ pc = "finally"
    /\ sock' = "closed"
    /\ sockCloseCalls' = sockCloseCalls + 1
    /\ trace' = Append(trace, "sock.close")
    /\ pc' = "handler_done"
    /\ UNCHANGED <<command, path, wireHeaders, exc, headers, requestBody,
                   approxRequestLen, requestArgs, response, respOrder,
                   approxResponseLen, wire, bytesUp, bytesDown, clientSock>>
    /\ HandlerMainUnchanged

\* ThreadedHTTPServer (ThreadingMixIn.process_request_thread): once the
\* handler is over the server reports an escaped exception and shuts the
\* client connection down
server_shutdown_request ==
    /\ pc = "handler_done"
    /\ clientSock' = "closed"
    /\ trace' = trace
                \o (IF exc # "none" THEN <<"handle_error">> ELSE <<>>)
                \o <<"shutdown_request">>
    /\ pc' = "closed"
    /\ UNCHANGED <<command, path, wireHeaders, exc, headers, requestBody,
                   approxRequestLen, requestArgs, response, respOrder,
                   approxResponseLen, wire, bytesUp, bytesDown, sock,
                   sockCloseCalls>>
    /\ HandlerMainUnchanged

HandlerNext ==
    \/ log_request_delay_enter
    \/ proxy_request_headers
    \/ proxy_request_body
    \/ proxy_request_record_up
    \/ proxy_request_call
    \/ proxy_request_respond
    \/ proxy_request_record_down
    \/ log_request_delay_exit
    \/ connect_request_split
    \/ connect_request_connect
    \/ connect_request_failed
    \/ connect_request_reply
    \/ connect_request_stream
    \/ connect_request_finally
    \/ server_shutdown_request

(* ---------------------------------------------------------------------- *)
(* Start-up: get_args, main, build_local_proxy, build_lambda_proxy         *)
(* ---------------------------------------------------------------------- *)
Threads == 1..NumThreads
FunctionNames == {"fn-a"}
LambdaTypes == {"short", "long", "hybrid"}

GivenFunctions ==
    UNION {[1..n -> FunctionNames] : n \in 0..MaxGivenFunctions}

\* the command line: what the user wrote, before argparse fills defaults
CommandLines ==
    [runLocal : BOOLEAN,
     functions : GivenFunctions,
     lambdaTypeGiven : BOOLEAN,
     lambdaType : LambdaTypes,
     maxLambdasGiven : BOOLEAN,
     maxLambdas : 0..MaxLambdasBound,
     enableMitm : BOOLEAN]

NoArgs == [runLocal |-> FALSE, functions |-> <<>>, lambdaType |-> "",
           maxLambdas |-> 0, enableMitm |-> FALSE]
NoProxy == [requestProxy |-> "none", streamProxy |-> "none", maxParallel |-> 0]

\* lines 37-70: action='append' extends the default list, the other
\* options fall back to their defaults when absent
get_args(cl) ==
    [runLocal |-> cl.runLocal,
     functions |-> DEFAULT_FUNCTIONS \o cl.functions,
     lambdaType |-> IF cl.lambdaTypeGiven THEN cl.lambdaType ELSE "hybrid",
     maxLambdas |-> IF cl.maxLambdasGiven THEN cl.maxLambdas
                    ELSE DEFAULT_MAX_LAMBDAS,
     enableMitm |-> cl.enableMitm]

\* lines 73-89
build_local_proxy(a) ==
    [exit |-> FALSE, status |-> 0,
     proxy |-> [requestProxy |-> "local",
                streamProxy |-> IF a.enableMitm THEN "mitm" ELSE "local",
                maxParallel |-> 0]]

\* lines 92-139 handing the backend one slot more than --max-lambdas
build_lambda_proxy_one_more(a) ==
    IF a.functions = <<>>
    THEN [exit |-> TRUE, status |-> (-1) % 256, proxy |-> NoProxy]
    ELSE [exit |-> FALSE, status |-> 0,
          proxy |-> [requestProxy |-> a.lambdaType,
                     streamProxy |-> IF a.enableMitm THEN "mitm" ELSE "local",
                     maxParallel |-> a.maxLambdas + 1]]

\* lines 92-139: sys.exit(-1) without functions, else the backend chosen
\* by --lambda-type with maxLambdas as its ceiling
build_lambda_proxy(a) ==
    IF a.functions = <<>>
    THEN [exit |-> TRUE, status |-> (-1) % 256, proxy |-> NoProxy]
    ELSE [exit |-> FALSE, status |-> 0,
          proxy |-> [requestProxy |-> a.lambdaType,
                     streamProxy |-> IF a.enableMitm THEN "mitm" ELSE "local",
                     maxParallel |-> a.maxLambdas]]

MainInit ==
    /\ argv \in {cl \in CommandLines :
                    /\ (~cl.lambdaTypeGiven => cl.lambdaType = "hybrid")
                    /\ (~cl.maxLambdasGiven => cl.maxLambdas = 0)}
    /\ args = NoArgs
    /\ mainPc = "get_args"
    /\ exitCode = 0
    /\ proxy = NoProxy
    /\ listener = "none"
    /\ semaphore = 0
    /\ workers = 0
    /\ tpc = [t \in Threads |-> "idle"]

\* lines 289-291
main_get_args ==
    /\ mainPc = "get_args"
    /\ args' = get_args(argv)
    /\ mainPc' = "configure"
    /\ UNCHANGED <<argv, exitCode, proxy, listener, semaphore, workers, tpc>>
    /\ UNCHANGED hvars

\* the worker pool as its constructor leaves it (lib.proxies.aws is not part
\* of the sources at hand): short-lived keeps a semaphore of maxParallel
\* slots, long-lived starts maxParallel persistent workers, hybrid starts
\* none and shares one capacity counter between both kinds of invocation
PoolInit(p) ==
    [semaphore |-> IF p.requestProxy \in {"short", "hybrid"}
                   THEN p.maxParallel ELSE 0,
     workers |-> IF p.requestProxy = "long" THEN p.maxParallel ELSE 0]

\* lines 273-280
main_build_proxy ==
    /\ mainPc = "configure"
    /\ LET built == IF args.runLocal THEN build_local_proxy(args)
                    ELSE build_lambda_proxy(args)
       IN IF built.exit
          THEN /\ mainPc' = "exited"
               /\ exitCode' = built.status
               /\ UNCHANGED <<proxy, semaphore, workers>>
          ELSE /\ mainPc' = "build_handler"
               /\ proxy' = built.proxy
               /\ semaphore' = PoolInit(built.proxy).semaphore
               /\ workers' = PoolInit(built.proxy).workers
               /\ UNCHANGED exitCode
    /\ UNCHANGED <<argv, args, listener, tpc>>
    /\ UNCHANGED hvars

\* lines 282-283
main_create_server ==
    /\ mainPc = "build_handler"
    /\ listener' = "created"
    /\ mainPc' = "serve"
    /\ UNCHANGED <<argv, args, exitCode, proxy, semaphore, workers, tpc>>
    /\ UNCHANGED hvars

\* lines 284-286
main_serve_forever ==
    /\ mainPc = "serve"
    /\ listener' = "serving"
    /\ mainPc' = "serving"
    /\ UNCHANGED <<argv, args, exitCode, proxy, semaphore, workers, tpc>>
    /\ UNCHANGED hvars

(* ---------------------------------------------------------------------- *)
(* Request threads of ThreadedHTTPServer against the backend              *)
(* ---------------------------------------------------------------------- *)
Count(st) == Cardinality({t \in Threads : tpc[t] = st})

ThreadUnchanged == UNCHANGED <<argv, args, mainPc, exitCode, proxy, listener>>

\* lines 268-269, 212: a request thread reaches proxy.request
thread_request(t) ==
    /\ listener = "serving"
    /\ tpc[t] = "idle"
    /\ tpc' = [tpc EXCEPT ![t] = "request"]
    /\ UNCHANGED <<semaphore, workers>>
    /\ ThreadUnchanged /\ UNCHANGED hvars

\* LocalProxy dials directly, no pool involved
local_request(t) ==
    /\ proxy.requestProxy = "local"
    /\ tpc[t] = "request"
    /\ tpc' = [tpc EXCEPT ![t] = "done"]
    /\ UNCHANGED <<semaphore, workers>>
    /\ ThreadUnchanged /\ UNCHANGED hvars

\* short-lived: block until a slot is free, then invoke
short_acquire(t) ==
    /\ proxy.requestProxy = "short"
    /\ tpc[t] = "request"
    /\ semaphore > 0
    /\ semaphore' = semaphore - 1
    /\ tpc' = [tpc EXCEPT ![t] = "invoking"]
    /\ UNCHANGED workers
    /\ ThreadUnchanged /\ UNCHANGED hvars

\* the invocation returns, fails or times out: the slot is released
short_release(t) ==
    /\ tpc[t] = "invoking"
    /\ semaphore' = semaphore + 1
    /\ tpc' = [tpc EXCEPT ![t] = "done"]
    /\ UNCHANGED workers
    /\ ThreadUnchanged /\ UNCHANGED hvars

\* long-lived and hybrid: the request is queued for a persistent worker
pool_enqueue(t) ==
    /\ proxy.requestProxy \in {"long", "hybrid"}
    /\ tpc[t] = "request"
    /\ tpc' = [tpc EXCEPT ![t] = "queued"]
    /\ UNCHANGED <<semaphore, workers>>
    /\ ThreadUnchanged /\ UNCHANGED hvars

\* an idle persistent worker pulls one queued request
worker_take(t) ==
    /\ tpc[t] = "queued"
    /\ Count("served") < workers
    /\ tpc' = [tpc EXCEPT ![t] = "served"]
    /\ UNCHANGED <<semaphore, workers>>
    /\ ThreadUnchanged /\ UNCHANGED hvars

\* the worker publishes the result and loops
worker_publish(t) ==
    /\ tpc[t] = "served"
    /\ tpc' = [tpc EXCEPT ![t] = "done"]
    /\ UNCHANGED <<semaphore, workers>>
    /\ ThreadUnchanged /\ UNCHANGED hvars

\* hybrid: every worker busy and capacity left, one more persistent worker
hybrid_start_worker ==
    /\ proxy.requestProxy = "hybrid"
    /\ Count("queued") > 0
    /\ Count("served") = workers
    /\ semaphore > 0
    /\ semaphore' = semaphore - 1
    /\ workers' = workers + 1
    /\ UNCHANGED tpc
    /\ ThreadUnchanged /\ UNCHANGED hvars

\* hybrid: every worker busy and capacity left, overflow to a short-lived
\* invocation drawn from the same capacity counter
hybrid_overflow(t) ==
    /\ proxy.requestProxy = "hybrid"
    /\ tpc[t] = "request"
    /\ Count("served") = workers
    /\ semaphore > 0
    /\ semaphore' = semaphore - 1
    /\ tpc' = [tpc EXCEPT ![t] = "invoking"]
    /\ UNCHANGED workers
    /\ ThreadUnchanged /\ UNCHANGED hvars

\* the handler thread ends; the server accepts the next connection
thread_done(t) ==
    /\ tpc[t] = "done"
    /\ tpc' = [tpc EXCEPT ![t] = "idle"]
    /\ UNCHANGED <<semaphore, workers>>
    /\ ThreadUnchanged /\ UNCHANGED hvars

MainNext ==
    \/ main_get_args
    \/ main_build_proxy
    \/ main_create_server
    \/ main_serve_forever
    \/ \E t \in Threads : thread_request(t)
    \/ \E t \in Threads : local_request(t)
    \/ \E t \in Threads : short_acquire(t)
    \/ \E t \in Threads : short_release(t)
    \/ \E t \in Threads : pool_enqueue(t)
    \/ \E t \in Threads : worker_take(t)
    \/ \E t \in Threads : worker_publish(t)
    \/ hybrid_start_worker
    \/ \E t \in Threads : hybrid_overflow(t)
    \/ \E t \in Threads : thread_done(t)

(* ---------------------------------------------------------------------- *)
(* Specifications                                                         *)
(* ---------------------------------------------------------------------- *)
\* the handler runs inside a server that main has started
ServingState ==
    /\ argv = [runLocal |-> TRUE, functions |-> <<>>,
               lambdaTypeGiven |-> FALSE, lambdaType |-> "hybrid",
               maxLambdasGiven |-> FALSE, maxLambdas |-> 0,
               enableMitm |-> FALSE]
    /\ args = get_args(argv)
    /\ mainPc = "serving"
    /\ exitCode = 0
    /\ proxy = build_local_proxy(args).proxy
    /\ listener = "serving"
    /\ semaphore = 0
    /\ workers = 0
    /\ tpc = [t \in Threads |-> "idle"]

\* no connection has been accepted yet
NoConnection ==
    /\ command = "GET"
    /\ path = "http://a/"
    /\ wireHeaders = <<>>
    /\ pc = "idle"
    /\ exc = "none"
    /\ headers = <<>>
    /\ requestBody = NoBody
    /\ approxRequestLen = 0
    /\ requestArgs = NoCall
    /\ response = NoResponse
    /\ respOrder = <<>>
    /\ approxResponseLen = 0
    /\ wire = <<>>
    /\ trace = <<>>
    /\ bytesUp = <<>>
    /\ bytesDown = <<>>
    /\ sock = "none"
    /\ clientSock = "open"
    /\ sockCloseCalls = 0

Init == HandlerInit /\ ServingState
Next == HandlerNext
Spec == Init /\ [][Next]_vars

InitMain == MainInit /\ NoConnection
NextMain == MainNext
SpecMain == InitMain /\ [][NextMain]_vars

(* ---------------------------------------------------------------------- *)
(* Properties                                                             *)
(* ---------------------------------------------------------------------- *)
Has(e) == \E i \in DOMAIN trace : trace[i] = e
CountEv(e) == Cardinality({i \in DOMAIN trace : trace[i] = e})
Before(a, b) == \E i, j \in DOMAIN trace : i < j /\ trace[i] = a /\ trace[j] = b
HandlerOver == pc \in {"handler_done", "closed"}
StatusItems == {i \in DOMAIN wire : wire[i].kind = "status"}

RECURSIVE SumSizes(_, _)
SumSizes(S, hdrs) ==
    IF S = {} THEN 0
    ELSE LET h == CHOOSE x \in S : TRUE
         IN Len(h) + Len(hdrs[h]) + 4 + SumSizes(S \ {h}, hdrs)

\* C1: with maxParallel = N taken from --max-lambdas, the number of running
\* short-lived invocations plus the number of persistent workers never
\* exceeds N, whatever the burst of request threads does.
C1_AtMostNRunning ==
    proxy # NoProxy => Count("invoking") + workers <= args.maxLambdas

\* a burst saturates the short-lived pool: N invocations run, one thread waits
C1_Witness ==
    /\ proxy.requestProxy = "short"
    /\ args.maxLambdas >= 1
    /\ Count("invoking") = args.maxLambdas
    /\ Count("request") >= 1

\* C2: every response written to the client (every header block that is
\* ended by end_headers) carries the header Proxy-Connection: close.
C2_ProxyConnectionCloseAlways ==
    \A e \in DOMAIN wire :
        wire[e].kind = "end" =>
            \E i \in 1..(e - 1) :
                wire[i] = Header("Proxy-Connection", "close")

\* C3: the headers handed to proxy.request hold no filtered name except
\* Connection, Connection is there with value close, and every client header
\* outside the filtered set is there with the value the client sent (names
\* compared without regard to case, User-Agent excepted under the override).
C3_FilteredRequestHeaders ==
    requestArgs.called =>
        LET h == requestArgs.headers IN
        /\ \A k \in DOMAIN h :
              Lower(k) \in FILTERED_REQUEST_HEADERS => k = "Connection"
        /\ "Connection" \in DOMAIN h
        /\ h["Connection"] = "close"
        /\ \A n \in DOMAIN wireHeaders :
              Lower(n) \notin FILTERED_REQUEST_HEADERS =>
                 /\ Lower(n) \in DOMAIN h
                 /\ \/ h[Lower(n)] = wireHeaders[n]
                    \/ OVERRIDE_USER_AGENT /\ Lower(n) = "user-agent"

\* the client sent Connection: keep-alive and a header that is forwarded
C3_Witness ==
    /\ requestArgs.called
    /\ "Connection" \in DOMAIN wireHeaders
    /\ wireHeaders["Connection"] = "keep-alive"
    /\ "X-Token" \in DOMAIN wireHeaders

\* C4: when proxy.request raises, the exchange ends with an error status
\* line written to the client.
C4_FailureGivesErrorResponse ==
    (pc = "closed" /\ Has("proxy.request.raised")) =>
        \E i \in StatusItems : wire[i].code >= 400

\* C5: when proxy.connect raises, no 200 is ever written, any status written
\* is 520 (and it is written when the writes succeed), proxy.stream is not
\* invoked and no target socket is opened or closed.
C5_ConnectFailure ==
    Has("proxy.connect.raised") =>
        /\ \A i \in StatusItems : wire[i].code = 520
        /\ (HandlerOver /\ exc = "none") =>
              (wire # <<>> /\ wire[1] = StatusLine(520))
        /\ ~Has("proxy.stream")
        /\ sock = "none"
        /\ sockCloseCalls = 0

\* the error reply was written in full and the handler returned
C5_Witness ==
    /\ Has("proxy.connect.raised")
    /\ pc = "closed"
    /\ exc = "none"
    /\ wire = ConnectErrorItems("CONNECT")

\* C6: started without --local and without any --function, start-up ends in
\* a non-zero exit and the listener is never created.
C6_MissingFunctionIsFatal ==
    (~argv.runLocal /\ argv.functions = <<>>) =>
        /\ listener = "none"
        /\ mainPc \in {"get_args", "configure", "exited"}
        /\ (mainPc = "exited" => exitCode # 0)

\* C7: bytes-up is reported once, before proxy.request is called; bytes-down
\* is reported at most once and only after the whole response is written;
\* a proxied request whose handler runs to its end reports both.
C7_BytesUpThenDown ==
    /\ CountEv("record_bytes_up") <= 1
    /\ CountEv("record_bytes_down") <= 1
    /\ Len(bytesUp) = CountEv("record_bytes_up")
    /\ Len(bytesDown) = CountEv("record_bytes_down")
    /\ Has("proxy.request") =>
          /\ CountEv("record_bytes_up") = 1
          /\ Before("record_bytes_up", "proxy.request")
          /\ ~Before("proxy.request", "record_bytes_up")
    /\ Has("record_bytes_down") =>
          /\ wire = ResponseItems(response, respOrder)
          /\ Before("wfile.write", "record_bytes_down")
          /\ Before("proxy.request.returned", "record_bytes_down")
    /\ (command \in ProxiedMethods /\ HandlerOver /\ exc = "none") =>
          /\ CountEv("record_bytes_up") = 1
          /\ CountEv("record_bytes_down") = 1

\* a proxied request went through: both counters were reported
C7_Witness ==
    /\ pc = "closed"
    /\ exc = "none"
    /\ Len(bytesUp) = 1
    /\ Len(bytesDown) = 1

\* C8: proxy.stream is invoked only once the complete 200 reply is on the
\* wire, and a 200 reply is started only after proxy.connect has returned.
C8_ReplyBeforeStream ==
    command = "CONNECT" =>
        /\ Has("proxy.stream") =>
              /\ wire = ConnectReplyItems
              /\ Before("end_headers", "proxy.stream")
              /\ ~Before("proxy.stream", "send_response")
        /\ Has("send_response") =>
              /\ Before("proxy.connect.returned", "send_response")
              /\ wire[1] = StatusLine(200)

\* the tunnel was streamed after the reply
C8_Witness ==
    /\ command = "CONNECT"
    /\ Has("proxy.stream.returned")
    /\ wire = ConnectReplyItems

\* C9 as stated: once proxy.connect has returned a socket, at the end of the
\* handler both sockets are closed, the target one exactly once, and a
\* failure of proxy.stream is on its way to the server.
C9_BothSocketsClosedAtHandlerEnd ==
    (pc = "handler_done" /\ Has("proxy.connect.returned")) =>
        /\ clientSock = "closed"
        /\ sock = "closed"
        /\ sockCloseCalls = 1
        /\ Has("proxy.stream.raised") => exc # "none"

\* C9 amended: once proxy.connect has returned a socket, at the end of the
\* handler the target socket is closed, the handler having called close on
\* it exactly once, and a failure of proxy.stream is re-raised after that;
\* the client socket is closed at that point only when proxy.stream ran, and
\* in every case once the server has shut the request down.
C9_TargetClosedClientByServer ==
    (HandlerOver /\ Has("proxy.connect.returned")) =>
        /\ sock = "closed"
        /\ sockCloseCalls = 1
        /\ CountEv("sock.close") = 1
        /\ Has("proxy.stream.raised") =>
              /\ exc = "StreamError"
              /\ Before("proxy.stream.raised", "sock.close")
              /\ pc = "closed" => Before("sock.close", "handle_error")
        /\ (pc = "handler_done" /\ clientSock = "closed") => Has("proxy.stream")
        /\ pc = "closed" => clientSock = "closed"

\* proxy.stream raised and the handler has ended with the exception pending
C9_Witness ==
    /\ pc = "handler_done"
    /\ Has("proxy.stream.raised")
    /\ sock = "closed"

\* C10: the value reported by record_bytes_down is 20 plus len(name) +
\* len(value) + 4 for every forwarded response header plus the body length.
C10_BytesDownIsSum ==
    bytesDown # <<>> =>
        bytesDown[1] =
            20
            + SumSizes(DOMAIN response.headers \ FILTERED_RESPONSE_HEADERS,
                       response.headers)
            + Len(response.content)

====
